---- MODULE Spec2Model ----
(***************************************************************************)
(* A state-machine model of the fitting routines of satlas/fitting.py:    *)
(* chisquare_fit, likelihood_fit (with the x-uncertainty convolution       *)
(* cache _x_err_calculation_stored), assignHessianEstimate,                *)
(* likelihood_walk and calculate_analytical_uncertainty.                   *)
(*                                                                         *)
(* The minimizer (lmfit), the numerical differentiation (numdifftools),    *)
(* the root finder (scipy.optimize.ridder) and the sampler (emcee) are     *)
(* external: each call is a nondeterministic choice over the results the   *)
(* call can deliver (a result from a small set, or an exception).          *)
(*                                                                         *)
(* Units.  Objective values of the fit entry points are integers in units  *)
(* of the absolute tolerance of numpy.isclose (1e-8).                      *)
(***************************************************************************)
EXTENDS Integers, Sequences, FiniteSets, TLC

VARIABLES
    pc,            \* position of the running entry point
    fn,            \* entry point being run: "none", "chisquare", "likelihood", "walk", "hessian", "analytical"
    f_params,      \* f.params: name -> [value, vary, stderr]
    f_chisqr,      \* f.chisqr
    f_mle_likelihood, \* f.mle_likelihood
    f_mle_fit,     \* f.mle_fit: <<>> when never set, else <<ParameterSet>>
    result_params, \* result.params of the last minimizer run
    result_message,\* result.message, identified by the run that produced it
    val,           \* local val of likelihood_fit
    success,       \* local success
    counter,       \* local counter
    xerr,          \* argument xerr (0 stands for None / all zero)
    walking,       \* argument walking
    stored,        \* _x_err_calculation_stored: {} or {entry} (the single key 0)
    ret,           \* returned value: <<>> while none, else <<success, message>>
    exc,           \* exception that ended the call, "none" otherwise
    reruns,        \* history: minimizer runs made inside the refit loop of this call
    objs,          \* history: once the refit loop is left, the objectives of its last two runs
    used,          \* history: cache entries the convolutions of this call worked with
    loop_ended,    \* history: the refit loop of this call has been left
    f_bounds,      \* min and max of every parameter of f: name -> [min, max]
    f_chisq_res_par, \* f.chisq_res_par: <<>> when never set, else <<ParameterSet>>
    (* locals of calculate_analytical_uncertainty *)
    method,        \* argument method
    filter,        \* argument filter: <<>> for None, else <<set of strings>>
    mapped,        \* (func, attr, save_attr) taken from mapping
    orig_value,    \* orig_value: None until the initial fit has returned
    orig_params,   \* orig_params (<<>> before the initial fit has returned)
    param_names,   \* param_names, a sequence
    i,             \* index of the parameter being scanned (from 1)
    search_value,  \* search_value
    ranges,        \* ranges, as the set of its <<name, key, number>>
    warned,        \* output: names the boundary warning was printed for
    hit,           \* history: <<name, side>> of every scan that reached the bound
    probed,        \* history: the last call of fit_new_value a scan loop made (<<>>: none yet)
    f_ndof,        \* f.ndof: None when never set
    f_appended,    \* number of values f.get_chisquare_mapping() returns (0: it returns None)
    (* the walk store and the locals of likelihood_walk *)
    file,          \* the file `filename`: <<>> when absent, else <<rows of its dataset 'data'>>
    file_open,     \* an h5py.File handle on the file is open
    walkers,       \* argument walkers
    nsteps,        \* argument nsteps
    w_i,           \* steps of this walk whose batch has been written
    offset,        \* local offset (0 in a walk that creates the file)
    ball,          \* local pos of lines 880-883: the initial positions around the optimum
    pos,           \* local pos given to the sampler: the rows it is made of
    walks,         \* history: calls of likelihood_walk started so far
    held,          \* history: f.params when this walk started
    (* SumModel and SingleSpectrum parameter linking *)
    sum_params,    \* SumModel.params: name -> [expr, vary]
    shared,        \* SumModel._shared, a sequence of names
    spec_params,   \* SingleSpectrum.params: name -> [expr, vary]
    ratios,        \* SingleSpectrum.ratioA, ratioB: parameter -> target or None
    lmfit_fixes,   \* the installed lmfit clears vary when an expr is assigned
    (* the numerical environment *)
    hess_zero,     \* the inverted Hessian of this model and data can have a zero on its diagonal
    (* followed in the specification of assignHessianEstimate only *)
    f_correl,      \* f.params[name].correl: name -> <<>> for None, else <<the keys of the dict>>
    (* followed in the specification of the store names only *)
    disk,          \* the store files: <<file name, number of the walk, name the caller gave>> for every walk written to a file
    named_walks    \* history: walks made with a store name so far

(* locals and history of the fit entry points *)
fitlocals == <<result_params, result_message, val, counter, xerr, walking,
               reruns, objs, used, loop_ended>>

(* locals and history of calculate_analytical_uncertainty *)
profvars == <<method, filter, mapped, orig_value, orig_params, param_names, i,
              search_value, ranges, warned, hit, probed>>

(* the walk store and the locals and history of likelihood_walk *)
walkvars == <<file, file_open, walkers, nsteps, w_i, offset, ball, pos, walks, held>>

(* the parameter sets of the linking operations *)
linkvars == <<sum_params, shared, spec_params, ratios, lmfit_fixes>>

(* what the fit entry points and calculate_analytical_uncertainty never touch *)
(* the numerical environment, fixed when the model and data are chosen, the
   correl attributes of f.params and the store files by name *)
extravars == <<hess_zero, f_correl, disk, named_walks>>

othervars == <<f_appended, walkvars, linkvars, extravars>>

vars == <<pc, fn, f_params, f_bounds, f_chisqr, f_mle_likelihood, f_mle_fit,
          f_chisq_res_par, f_ndof, success, ret, exc, stored, fitlocals, profvars,
          othervars>>

-----------------------------------------------------------------------------
(* Bounds of the model *)
MaxObj == 2        \* objective values are 0..MaxObj
MaxRuns == 13      \* refit runs followed per call (chisquare_fit itself has no cap)
MaxVal == 1        \* optima are ValStep * (0..MaxVal)
MaxStderr == 1     \* Hessian standard errors are 2 * (1..MaxStderr)
MaxSigma == 2      \* x-uncertainties are 1..MaxSigma (0: none)
BoundWidth == 2    \* distance from the initial value to the bounds of a bounded parameter
MaxProbes == 2     \* probes followed in one direction of a scan that meets no bound
NumData == 4       \* data points x, y of a fit
MaxAppended == 1   \* values a model appends to the residuals: 0..MaxAppended
MaxWalkers == 2    \* walkers of a walk: 1..MaxWalkers
MaxSteps == 2      \* nsteps of a walk: 1..MaxSteps
MaxWalks == 2      \* walks made on one store file
MaxPert == 1       \* the ball puts a walker at most this far from the optimum
MaxWidth == 1      \* a bound is at most this far from the optimum
MaxShared == 2     \* names in a list given to SumModel.shared
MaxNamedWalks == 3 \* walks made with a store name

(* Program constants *)
None == -1         \* Python None in an integer field
RefitCap == 10     \* the literal 10 of "counter > 10"
AtolUnits == 1     \* numpy.isclose atol (1e-8), the unit of objective values
RtolInv == 100000  \* 1 / rtol of numpy.isclose (rtol = 1e-5)
HalfInv == 2       \* 1 / 0.5, the step of a scan being 0.5 * stderr
PercentInv == 100  \* 1 / 0.01, the fallback stderr being 0.01 * |value|
Inf == 1000000     \* numpy.inf, the bound of an unbounded parameter

(* Parameter values and standard errors are integers in a unit in which
   0.5 * stderr and 0.5 * 0.01 * |value| are whole numbers for the values the
   minimizer and the Hessian estimate deliver: optima are multiples of
   ValStep and Hessian standard errors are even. *)
ValStep == HalfInv * PercentInv

Names == {"p1", "p2"}
Objs == 0..MaxObj
Vals == { ValStep * k : k \in 0..MaxVal }
StdErrs == { HalfInv * k : k \in 1..MaxStderr }
Sigmas == 1..MaxSigma

Abs(n) == IF n < 0 THEN -n ELSE n

Parameter == [value : Vals, vary : BOOLEAN, stderr : StdErrs \cup {None}]
ParameterSets == [Names -> Parameter]

(* min and max of a parameter: unbounded, or BoundWidth around its initial
   value *)
Unbounded == [min |-> -Inf, max |-> Inf]
Around(v) == [min |-> v - BoundWidth, max |-> v + BoundWidth]

VarNames(params) == {n \in Names : params[n].vary}

(* the residual array of chisquare_model: one value per data point, and the
   values of f.get_chisquare_mapping() appended when it returns any *)
residuals(ndata, appended) == ndata + appended

(* result.nfree of the minimizer: the length of the residual array minus the
   number of free parameters *)
nfree(nresiduals, params) == nresiduals - Cardinality(VarNames(params))

-----------------------------------------------------------------------------
(* numpy.isclose(a, b): |a - b| <= atol + rtol * |b| *)
isclose(a, b) == Abs(a - b) * RtolInv <= AtolUnits * RtolInv + Abs(b)

(* The parameter sets a minimizer run started from params can deliver: the
   free parameters take any value inside their bounds, the fixed ones keep
   theirs. *)
Allowed(n) == { v \in Vals : f_bounds[n].min <= v /\ v <= f_bounds[n].max }
Choices == { v \in [Names -> Vals] : \A n \in Names : v[n] \in Allowed(n) }

MinimizerResults(params) ==
    { [n \in Names |-> [params[n] EXCEPT !.value = IF params[n].vary THEN v[n] ELSE @]]
        : v \in Choices }

(* params with every stderr set to None (likelihood_fit, "Eliminate the
   estimated uncertainties") *)
ClearStderr(params) == [n \in Names |-> [params[n] EXCEPT !.stderr = None]]

(* groupParams of _parameterCostfunction / likelihood_walk: fresh
   PriorParameters (no stderr) whose free values are the probe values. *)
groupParams(params, probe) ==
    [n \in Names |-> [value |-> IF params[n].vary THEN probe[n] ELSE params[n].value,
                      vary |-> params[n].vary,
                      stderr |-> None]]

-----------------------------------------------------------------------------
(* The x-uncertainty convolution cache *)

(* What an entry (x_grid, y_grid, theta, rfft_g) was built from: the data
   (x, y), which are the same in every call of the model, and xerr. *)
Entry(sx) == [sx |-> sx]

(* likelihood_x_err: key = 0 whatever the arguments; an entry under that key
   is used as it is, otherwise one is built from (x, y, xerr) and kept. *)
likelihood_x_err(st, sx) ==
    IF st # {}
    THEN [stored |-> st, used |-> st]
    ELSE [stored |-> {Entry(sx)}, used |-> {Entry(sx)}]

(* likelihood_loglikelihood: the convolution is used only for a non-zero xerr *)
likelihood_loglikelihood(st, sx) ==
    IF sx = 0
    THEN [stored |-> st, used |-> {}]
    ELSE likelihood_x_err(st, sx)

-----------------------------------------------------------------------------
(* assignHessianEstimate(func, f, params, ...): the outcomes of one call, as
   records [exc, f_params, evaluated].
     - no free parameter: returns at once, f.params untouched, func never run;
     - otherwise func is run on groupParams (which func assigns to f.params),
       and numpy.linalg.inv either raises LinAlgError on a singular matrix,
       leaving f.params at the last probe, or delivers the inverse, after
       which f.params = params with a stderr for every free parameter. *)
HessianSingular(params) ==
    { [exc |-> "LinAlgError", f_params |-> groupParams(params, probe), evaluated |-> TRUE]
        : probe \in Choices }

(* np.sqrt of the diagonal of the inverted Hessian *)
HessianStdErrs == StdErrs \cup (IF hess_zero THEN {0} ELSE {})

HessianInverted(params) ==
    { [exc |-> "none",
       f_params |-> [n \in Names |-> [params[n] EXCEPT !.stderr =
                                        IF params[n].vary THEN s[n] ELSE @]],
       evaluated |-> TRUE]
        : s \in [Names -> HessianStdErrs] }

(* the correl attributes of a ParameterSet: none set *)
NoCorrel == [n \in Names |-> <<>>]

(* lines 577-581: f.params[name].correl, for every free name the dict with a
   key for every other free name; old holds the attributes of params *)
correl_with_self(params, old) ==
    [n \in Names |-> IF params[n].vary THEN << VarNames(params) >> ELSE old[n]]
correl(params, old) ==
    [n \in Names |-> IF params[n].vary THEN << VarNames(params) \ {n} >> ELSE old[n]]

assignHessianEstimate(params, fparams) ==
    IF VarNames(params) = {}
    THEN { [exc |-> "none", f_params |-> fparams, evaluated |-> FALSE] }
    ELSE HessianInverted(params) \cup HessianSingular(params)

-----------------------------------------------------------------------------
(* chisquare_fit *)

(* line 185: the test that leaves the refit loop without success *)
chisquare_break(c, succ) == c > RefitCap /\ ~succ

(* the counter after one pass of the loop body: chisquare_fit has no
   "counter += 1" *)
chisquare_counter(c) == c

(* lines 159-179: the first minimizer run *)
chisquare_fit_start ==
    /\ pc = "idle"
    /\ fn' = "chisquare"
    /\ xerr' = 0 /\ walking' = FALSE
    /\ \/ \E rp \in MinimizerResults(f_params), chi \in Objs :
             /\ result_params' = rp
             /\ result_message' = 0
             /\ f_params' = rp
             /\ f_chisqr' = chi
             /\ success' = FALSE
             /\ counter' = 0
             /\ objs' = <<0, 0>>
             /\ pc' = "chi_loop"
             /\ exc' = "none"
       \/ \E probe \in MinimizerResults(f_params) :
             /\ f_params' = probe
             /\ pc' = "raised"
             /\ exc' = "MinimizerError"
             /\ UNCHANGED <<result_params, result_message, f_chisqr, success, counter, objs>>
    /\ reruns' = 0 /\ used' = {} /\ loop_ended' = FALSE /\ ret' = <<>>
    /\ UNCHANGED <<f_mle_likelihood, f_mle_fit, val, stored>>
    /\ UNCHANGED <<f_bounds, othervars, f_chisq_res_par, f_ndof, profvars>>

(* lines 180-186: one pass of "while not success" *)
chisquare_fit_refit ==
    /\ pc = "chi_loop"
    /\ ~success
    /\ reruns < MaxRuns
    /\ reruns' = reruns + 1
    /\ \/ \E rp \in MinimizerResults(result_params), chi \in Objs :
             LET succ == isclose(chi, f_chisqr)
                 c == chisquare_counter(counter)
                 leave == chisquare_break(c, succ) \/ succ
             IN /\ result_params' = rp
                /\ result_message' = reruns + 1
                /\ f_params' = rp
                /\ success' = succ
                /\ objs' = IF leave THEN <<f_chisqr, chi>> ELSE objs
                /\ f_chisqr' = chi
                /\ counter' = c
                /\ loop_ended' = leave
                /\ pc' = IF leave THEN "chi_hess" ELSE "chi_loop"
                /\ exc' = "none"
       \/ \E probe \in MinimizerResults(result_params) :
             /\ f_params' = probe
             /\ pc' = "raised"
             /\ exc' = "MinimizerError"
             /\ UNCHANGED <<result_params, result_message, f_chisqr, success, counter,
                            objs, loop_ended>>
    /\ UNCHANGED <<fn, f_mle_likelihood, f_mle_fit, val, xerr, walking, stored,
                   ret, used>>
    /\ UNCHANGED <<f_bounds, othervars, f_chisq_res_par, f_ndof, profvars>>

(* lines 191-195: bookkeeping, the Hessian estimate on f.params, the return *)
chisquare_fit_finish ==
    /\ pc = "chi_hess"
    /\ \E h \in assignHessianEstimate(f_params, f_params) :
          /\ f_params' = h.f_params
          /\ exc' = h.exc
          /\ IF h.exc = "none"
             THEN pc' = "returned" /\ ret' = << [success |-> success, message |-> result_message] >>
             ELSE pc' = "raised" /\ ret' = <<>>
    /\ UNCHANGED <<fn, f_chisqr, f_mle_likelihood, f_mle_fit, result_params,
                   result_message, val, success, counter, xerr, walking, stored,
                   reruns, objs, used, loop_ended>>
    /\ f_chisq_res_par' = << result_params >>
    /\ f_ndof' = nfree(residuals(NumData, f_appended), result_params)
    /\ UNCHANGED <<f_bounds, othervars, profvars>>

-----------------------------------------------------------------------------
(* likelihood_fit *)

(* line 489: the test that leaves the refit loop without success *)
likelihood_break(c, succ) == ~succ /\ c > RefitCap

(* likelihood_counter with the increment lost *)
likelihood_counter_lost(c) == c

(* line 484: counter += 1 *)
likelihood_counter(c) == c + 1

(* line 502: _x_err_calculation_stored.clear() *)
clear(st) == {}

(* lines 467-480: the first minimizer run and the evaluation of val *)
likelihood_fit_start ==
    /\ pc = "idle"
    /\ fn' = "likelihood"
    /\ \E sx \in Sigmas \cup {0}, w \in BOOLEAN :
          LET params == ClearStderr(f_params)
              ev == likelihood_loglikelihood(stored, sx)
          IN /\ xerr' = sx
             /\ walking' = w
             /\ \/ \E rp \in MinimizerResults(params), v \in Objs :
                      /\ result_params' = rp
                      /\ result_message' = 0
                      /\ f_params' = rp
                      /\ val' = v
                      /\ success' = FALSE
                      /\ counter' = 0
                      /\ objs' = <<0, 0>>
                      /\ stored' = ev.stored
                      /\ used' = ev.used
                      /\ pc' = "lik_loop"
                      /\ exc' = "none"
                \/ \E probe \in MinimizerResults(params), evaluated \in BOOLEAN :
                      /\ f_params' = IF evaluated THEN probe ELSE f_params
                      /\ stored' = IF evaluated THEN ev.stored ELSE stored
                      /\ used' = IF evaluated THEN ev.used ELSE {}
                      /\ pc' = "raised"
                      /\ exc' = "MinimizerError"
                      /\ UNCHANGED <<result_params, result_message, val, success,
                                     counter, objs>>
    /\ reruns' = 0 /\ loop_ended' = FALSE /\ ret' = <<>>
    /\ UNCHANGED <<f_chisqr, f_mle_likelihood, f_mle_fit>>
    /\ UNCHANGED <<f_bounds, othervars, f_chisq_res_par, f_ndof, profvars>>

(* lines 481-490: one pass of "while not success" *)
likelihood_fit_refit ==
    /\ pc = "lik_loop"
    /\ ~success
    /\ reruns < MaxRuns
    /\ reruns' = reruns + 1
    /\ LET ev == likelihood_loglikelihood(stored, xerr)
       IN \/ \E rp \in MinimizerResults(result_params), new_val \in Objs :
                LET succ == isclose(val, new_val)
                    c == likelihood_counter(counter)
                    leave == likelihood_break(c, succ) \/ succ
                IN /\ result_params' = rp
                   /\ result_message' = reruns + 1
                   /\ f_params' = rp
                   /\ success' = succ
                   /\ objs' = IF leave THEN <<val, new_val>> ELSE objs
                   /\ val' = new_val
                   /\ counter' = c
                   /\ loop_ended' = leave
                   /\ stored' = ev.stored
                   /\ used' = used \cup ev.used
                   /\ pc' = IF leave THEN "lik_hess" ELSE "lik_loop"
                   /\ exc' = "none"
          \/ \E probe \in MinimizerResults(result_params) :
                /\ f_params' = probe
                /\ stored' = ev.stored
                /\ used' = used \cup ev.used
                /\ pc' = "raised"
                /\ exc' = "MinimizerError"
                /\ UNCHANGED <<result_params, result_message, val, success, counter,
                               objs, loop_ended>>
    /\ UNCHANGED <<fn, f_chisqr, f_mle_likelihood, f_mle_fit, xerr, walking, ret>>
    /\ UNCHANGED <<f_bounds, othervars, f_chisq_res_par, f_ndof, profvars>>

(* lines 494-498: f.mle_fit, f.mle_result, f.mle_likelihood (the objective
   at f.params once more, which is val) and the Hessian estimate on
   result.params; f.params, f.mle_fit and result.params are then one object *)
likelihood_fit_hessian ==
    /\ pc = "lik_hess"
    /\ f_mle_likelihood' = val
    /\ LET ev == likelihood_loglikelihood(stored, xerr)
       IN \E h \in assignHessianEstimate(result_params, f_params) :
             /\ f_params' = h.f_params
             /\ exc' = h.exc
             /\ stored' = ev.stored
             /\ used' = used \cup ev.used
             /\ IF h.exc = "none"
                THEN /\ pc' = IF walking THEN "lik_walk" ELSE "lik_clear"
                     /\ result_params' = IF h.evaluated THEN h.f_params ELSE result_params
                ELSE /\ pc' = "raised"
                     /\ result_params' = result_params
             /\ f_mle_fit' = << result_params' >>
    /\ UNCHANGED <<fn, f_chisqr, result_message, val, success, counter, xerr,
                   walking, ret, reruns, objs, loop_ended>>
    /\ UNCHANGED <<f_bounds, othervars, f_chisq_res_par, f_ndof, profvars>>

(* likelihood_walk(f, x, y, xerr, ...): the sampler evaluates
   likelihood_lnprob on groupParams, which assigns them to f.params; at the
   end f.mle_fit = params and f.params = params.  The sampler or the store
   can raise. Outcomes as records [exc, f_params]. *)
likelihood_walk(params) ==
    { [exc |-> "none", f_params |-> params] }
    \cup { [exc |-> "WalkError", f_params |-> groupParams(params, probe)]
             : probe \in Choices }

(* lines 500-501: the optional walk *)
likelihood_fit_walk ==
    /\ pc = "lik_walk"
    /\ LET ev == likelihood_loglikelihood(stored, xerr)
       IN \E w \in likelihood_walk(f_mle_fit[1]) :
             /\ f_params' = w.f_params
             /\ exc' = w.exc
             /\ stored' = ev.stored
             /\ used' = used \cup ev.used
             /\ pc' = IF w.exc = "none" THEN "lik_clear" ELSE "raised"
    /\ UNCHANGED <<fn, f_chisqr, f_mle_likelihood, f_mle_fit, result_params,
                   result_message, val, success, counter, xerr, walking, ret,
                   reruns, objs, loop_ended>>
    /\ UNCHANGED <<f_bounds, othervars, f_chisq_res_par, f_ndof, profvars>>

(* lines 502-503: the cache is cleared and (success, message) returned *)
likelihood_fit_return ==
    /\ pc = "lik_clear"
    /\ stored' = clear(stored)
    /\ ret' = << [success |-> success, message |-> result_message] >>
    /\ pc' = "returned"
    /\ UNCHANGED <<fn, f_params, f_chisqr, f_mle_likelihood, f_mle_fit, result_params,
                   result_message, val, success, counter, xerr, walking, exc,
                   reruns, objs, used, loop_ended>>
    /\ UNCHANGED <<f_bounds, othervars, f_chisq_res_par, f_ndof, profvars>>

-----------------------------------------------------------------------------
(* Calls made by the user outside a fit *)

(* likelihood_walk called on its own, after some likelihood_fit set f.mle_fit:
   its evaluations fill the cache, and nothing in it clears the cache. *)
standalone_likelihood_walk ==
    /\ pc = "idle"
    /\ f_mle_fit # <<>>
    /\ fn' = "walk"
    /\ \E sx \in Sigmas \cup {0} :
          LET ev == likelihood_loglikelihood(stored, sx)
          IN /\ xerr' = sx
             /\ \E w \in likelihood_walk(f_mle_fit[1]) :
                   /\ f_params' = w.f_params
                   /\ exc' = w.exc
                   /\ pc' = IF w.exc = "none" THEN "returned" ELSE "raised"
             /\ stored' = ev.stored
             /\ used' = ev.used
    /\ walking' = FALSE /\ ret' = <<>> /\ reruns' = 0 /\ loop_ended' = FALSE
    /\ UNCHANGED <<f_chisqr, f_mle_likelihood, f_mle_fit, result_params, result_message,
                   val, success, counter, objs>>
    /\ UNCHANGED <<f_bounds, othervars, f_chisq_res_par, f_ndof, profvars>>

(* assignHessianEstimate(likelihood_lnprob, f, f.params, x, y, xerr, func,
   likelihood=True) called on its own *)
standalone_hessian ==
    /\ pc = "idle"
    /\ fn' = "hessian"
    /\ \E sx \in Sigmas \cup {0} :
          LET ev == likelihood_loglikelihood(stored, sx)
          IN /\ xerr' = sx
             /\ \E h \in assignHessianEstimate(f_params, f_params) :
                   /\ f_params' = h.f_params
                   /\ exc' = h.exc
                   /\ pc' = IF h.exc = "none" THEN "returned" ELSE "raised"
                   /\ stored' = IF h.evaluated THEN ev.stored ELSE stored
                   /\ f_correl' = IF ~h.evaluated THEN f_correl
                                  ELSE IF h.exc = "none" THEN correl(f_params, f_correl)
                                  ELSE NoCorrel
                   /\ used' = IF h.evaluated THEN ev.used ELSE {}
    /\ walking' = FALSE /\ ret' = <<>> /\ reruns' = 0 /\ loop_ended' = FALSE
    /\ UNCHANGED <<f_chisqr, f_mle_likelihood, f_mle_fit, result_params, result_message,
                   val, success, counter, objs>>
    /\ UNCHANGED <<f_bounds, f_appended, walkvars, linkvars, hess_zero, disk, named_walks,
                   f_chisq_res_par, f_ndof, profvars>>

(* The call has ended (by a return or by an exception the caller caught):
   the caller goes on to its next call.  The model object f and the
   module-level cache stay as the call left them. *)
next_call ==
    /\ pc \in {"returned", "raised"}
    /\ pc' = "idle"
    /\ fn' = "none"
    /\ result_params' = f_params
    /\ result_message' = 0 /\ val' = 0 /\ success' = FALSE /\ counter' = 0
    /\ xerr' = 0 /\ walking' = FALSE
    /\ ret' = <<>> /\ exc' = "none"
    /\ reruns' = 0 /\ objs' = <<0, 0>> /\ used' = {} /\ loop_ended' = FALSE
    /\ method' = "" /\ filter' = <<>> /\ mapped' = <<>>
    /\ orig_value' = None /\ orig_params' = <<>> /\ param_names' = <<>>
    /\ i' = 0 /\ search_value' = 0 /\ ranges' = {} /\ warned' = {} /\ hit' = {}
    /\ probed' = <<>>
    /\ UNCHANGED <<f_params, f_chisqr, f_mle_likelihood, f_mle_fit, stored>>
    /\ UNCHANGED <<f_bounds, othervars, f_chisq_res_par, f_ndof>>

-----------------------------------------------------------------------------
(* calculate_analytical_uncertainty(f, x, y, method, filter, fit_kws = {}).
   Objective values are here in units of 1, so that the thresholds are 1
   (chi-square) and 0.5 (likelihood). *)

Methods == {"chisquare", "MLE", "gaussian"}
Filters == {<<>>} \cup { <<{n}>> : n \in Names }

(* str.lower() on the method names above *)
lower(m) == IF m = "MLE" THEN "mle" ELSE m

(* lines 731-733: method -> (func, attr, save_attr) *)
mapping ==
    [chisquare_spectroscopic |-> <<"chisquare_spectroscopic_fit", "chisqr", "chisq_res_par">>,
     chisquare |-> <<"chisquare_fit", "chisqr", "chisq_res_par">>,
     mle |-> <<"likelihood_fit", "mle_likelihood", "mle_fit">>]

(* line 734: mapping.pop(method.lower(), <the chisquare_spectroscopic entry>) *)
mapping_pop(m) ==
    IF lower(m) \in DOMAIN mapping
    THEN mapping[lower(m)]
    ELSE <<"chisquare_spectroscopic_fit", "chisqr", "chisq_res_par">>

(* twice the threshold 1 - 0.5*(method.lower() == 'mle') *)
Threshold2(m) == 2 - (IF lower(m) = "mle" THEN 1 ELSE 0)

(* new_value > threshold, for the objective increase new_value *)
crosses_at_one(delta, m) == 2 * delta > 2
crosses(delta, m) == 2 * delta > Threshold2(m)

(* lines 746-751: the free parameters the filter lets through, in the order
   of the ParameterSet ('f in p' on the names of the model is equality) *)
selected(params, flt) ==
    { n \in Names : params[n].vary /\ (flt = <<>> \/ n \in flt[1]) }

NameOrder == <<"p1", "p2">>
param_names_of(params, flt) ==
    SelectSeq(NameOrder, LAMBDA n : n \in selected(params, flt))

(* lines 758-760: the stderr a scan steps with *)
Fallback(value) == Abs(value) \div PercentInv
scan_stderr(value, stderr) ==
    LET s == IF stderr # None THEN stderr ELSE Fallback(value)
    IN IF s # 0 THEN s ELSE Fallback(value)

(* 0.5 * stderr *)
half(stderr) == stderr \div HalfInv

(* ranges[name][key] = v *)
ranges_set(rng, name, key, v) ==
    { t \in rng : ~(t[1] = name /\ t[2] = key) } \cup { <<name, key, v>> }
ranges_has(rng, name, key) == \E t \in rng : t[1] = name /\ t[2] = key
ranges_get(rng, name, key) == (CHOOSE t \in rng : t[1] = name /\ t[2] = key)[3]

(* One call func(f, x, y, **fit_kws) of chisquare_spectroscopic_fit,
   chisquare_fit or likelihood_fit with f.params = params, as the records
   [exc, f_params, obj, res] of what it leaves: the exception that ended it
   ("none": it returned), f.params, the objective it stored on f (None: it
   stored none) and the ParameterSet it stored as chisq_res_par / mle_fit
   (<<>>: none).  likelihood_fit starts from params with the stderr cleared
   and stores result.params, which the Hessian estimate then fills in;
   chisquare_fit stores a copy made before the Hessian estimate. *)
fit_call(func, params) ==
    LET lik == func = "likelihood_fit"
        start == IF lik THEN ClearStderr(params) ELSE params
    IN UNION { { [exc |-> h.exc, touched |-> TRUE, f_params |-> h.f_params, obj |-> o,
                  res |-> << IF lik /\ h.exc = "none" THEN h.f_params ELSE rp >>]
                   : o \in Objs, h \in assignHessianEstimate(rp, rp) }
               : rp \in MinimizerResults(start) }
       \cup { [exc |-> "MinimizerError", touched |-> TRUE, f_params |-> probe,
               obj |-> None, res |-> <<>>]
                : probe \in MinimizerResults(start) }

(* What a fit leaves on f besides f.params: the objective under attr and the
   ParameterSet under save_attr *)
SetAttrs(o, mp) ==
    /\ f_chisqr' = IF o.touched /\ mp[2] = "chisqr" /\ o.obj # None
                   THEN o.obj ELSE f_chisqr
    /\ f_mle_likelihood' = IF o.touched /\ mp[2] = "mle_likelihood" /\ o.obj # None
                           THEN o.obj ELSE f_mle_likelihood
    /\ f_chisq_res_par' = IF o.touched /\ mp[3] = "chisq_res_par" /\ o.res # <<>>
                          THEN o.res ELSE f_chisq_res_par
    /\ f_ndof' = IF o.touched /\ mp[3] = "chisq_res_par" /\ o.res # <<>>
                 THEN nfree(residuals(NumData, f_appended), o.res[1]) ELSE f_ndof
    /\ f_mle_fit' = IF o.touched /\ mp[3] = "mle_fit" /\ o.res # <<>>
                    THEN o.res ELSE f_mle_fit

SetModel(o, mp) ==
    /\ f_params' = IF o.touched THEN o.f_params ELSE f_params
    /\ SetAttrs(o, mp)

(* value == orig_value, the comparison fit_new_value makes between the probe
   value of the parameter and the objective of the initial fit: as Python
   numbers, a parameter value v of the model is v / ValStep *)
SameNumber(value, objective) == value = ValStep * objective

(* fit_new_value(value, f, params, name, x, y, orig_value, func), lines
   696-728, as records [exc, delta, touched, f_params, obj, res]: 0 with f
   untouched when value == orig_value; otherwise name is fixed at value in a
   copy of params, which becomes f.params, and func is called until it
   reports success or 11 calls are made: what the last call leaves is what
   one call can leave.  delta is getattr(f, attr) - orig_value. *)
fit_new_value(value, name) ==
    IF SameNumber(value, orig_value)
    THEN { [exc |-> "none", delta |-> 0, touched |-> FALSE, f_params |-> f_params,
            obj |-> None, res |-> <<>>] }
    ELSE LET params == [orig_params[1] EXCEPT ![name].value = value,
                                               ![name].vary = FALSE]
         IN { [exc |-> o.exc,
               delta |-> IF o.exc = "none" THEN o.obj - orig_value ELSE 0,
               touched |-> TRUE, f_params |-> o.f_params, obj |-> o.obj, res |-> o.res]
                : o \in fit_call(mapped[1], params) }

Between(a, b) == IF a <= b THEN a..b ELSE b..a

(* optimize.ridder(fit_new_value - threshold, a, b, full_output=True), as
   records [exc, root, converged, o]: it evaluates fit_new_value at a, at b
   and at points between them, and o is what its last evaluation left on f.
   It returns a root between a and b with converged = True, or raises: a
   ValueError when the two ends have the same sign, a RuntimeError when it
   has not converged (disp=True), or what a refit raises. *)
ridder(a, b, name) ==
    LET evals == UNION { { o \in fit_new_value(x, name) : o.touched } : x \in Between(a, b) }
    IN { [exc |-> "none", root |-> r, converged |-> TRUE, o |-> o]
           : r \in Between(a, b), o \in { e \in evals : e.exc = "none" } }
       \cup { [exc |-> IF o.exc = "none" THEN "RootError" ELSE o.exc,
               root |-> a, converged |-> FALSE, o |-> o] : o \in evals }

(* line 798: success = False when the left scan reaches the bound *)
left_limit_success_kept(succ) == succ
left_limit_success(succ) == FALSE

(* lines 731-753: the mapping, the initial fit, orig_value, orig_params,
   param_names *)
calculate_analytical_uncertainty_start ==
    /\ pc = "idle"
    /\ fn' = "analytical"
    /\ \E m \in Methods, flt \in Filters :
          LET mp == mapping_pop(m)
          IN /\ method' = m /\ filter' = flt /\ mapped' = mp
             /\ \E o \in fit_call(mp[1], f_params) :
                   /\ SetModel(o, mp)
                   /\ exc' = o.exc
                   /\ IF o.exc = "none"
                      THEN LET names == param_names_of(o.f_params, flt)
                           IN /\ orig_value' = o.obj
                              /\ orig_params' = << o.f_params >>
                              /\ param_names' = names
                              /\ i' = IF names = <<>> THEN 0 ELSE 1
                              /\ search_value' = IF names = <<>> THEN 0
                                                 ELSE o.f_params[names[1]].value
                              /\ pc' = IF names = <<>> THEN "cau_finish" ELSE "cau_right"
                      ELSE /\ pc' = "raised"
                           /\ UNCHANGED <<orig_value, orig_params, param_names, i,
                                          search_value>>
    /\ success' = FALSE /\ ret' = <<>> /\ ranges' = {} /\ warned' = {} /\ hit' = {}
    /\ probed' = <<>>
    /\ UNCHANGED <<f_bounds, othervars, stored, fitlocals>>

(* the outcomes of one probe of a scan: a refit raised; the increase of the
   objective is not above the threshold (lines 775, 801); it is above it *)
probe_raised(sv, name) == { o \in fit_new_value(sv, name) : o.exc # "none" }
probe_below(sv, name) ==
    { o \in fit_new_value(sv, name) : o.exc = "none" /\ ~crosses(o.delta, method) }
probe_above(sv, name) ==
    { o \in fit_new_value(sv, name) : o.exc = "none" /\ crosses(o.delta, method) }

(* the record of one call fit_new_value(sv, f, params, name, ...) of a scan
   loop with outcome o *)
Probe(sv, name, o) ==
    << [name |-> name, at |-> sv, touched |-> o.touched, delta |-> o.delta,
        exc |-> o.exc] >>

(* a refit or the root finder raised: the exception leaves the function *)
cau_raise(o, e) ==
    /\ SetModel(o, mapped)
    /\ pc' = "raised"
    /\ exc' = e
    /\ UNCHANGED <<success, search_value, ranges, warned, hit, i>>

(* lines 765-787: one pass of the loop searching to the right *)
scan_right ==
    /\ pc = "cau_right"
    /\ LET name == param_names[i]
           value == orig_params[1][name].value
           stderr == scan_stderr(value, orig_params[1][name].stderr)
           sv == search_value + half(stderr)
       IN IF sv > f_bounds[name].max
          THEN /\ ranges' = ranges_set(ranges, name, "right", f_bounds[name].max)
               /\ hit' = hit \cup { <<name, "right">> }
               /\ search_value' = value
               /\ pc' = "cau_left"
               /\ UNCHANGED <<f_params, f_chisqr, f_mle_likelihood, f_chisq_res_par, f_ndof,
                              f_mle_fit, success, exc, warned, i, probed>>
          ELSE /\ Abs(sv - value) <= MaxProbes * half(stderr)
               /\ \/ \E o \in probe_raised(sv, name) :
                        cau_raise(o, o.exc) /\ probed' = Probe(sv, name, o)
                  \/ \E o \in probe_below(sv, name) :
                        /\ SetModel(o, mapped)
                        /\ probed' = Probe(sv, name, o)
                        /\ search_value' = sv
                        /\ pc' = "cau_right"
                        /\ UNCHANGED <<success, exc, ranges, warned, hit, i>>
                  \/ /\ \E o \in probe_above(sv, name) : probed' = Probe(sv, name, o)
                     /\ \E r \in ridder(value, sv, name) :
                           IF r.exc # "none"
                           THEN cau_raise(r.o, r.exc)
                           ELSE /\ SetModel(r.o, mapped)
                                /\ ranges' = ranges_set(ranges, name, "right", r.root)
                                /\ success' = r.converged
                                /\ search_value' = value
                                /\ pc' = "cau_left"
                                /\ UNCHANGED <<exc, warned, hit, i>>
    /\ UNCHANGED <<fn, f_bounds, othervars, stored, ret, fitlocals, method, filter, mapped,
                   orig_value, orig_params, param_names>>

(* lines 814-821 and the start of the next pass of "for i in
   range(no_params)": the warning, the uncertainty and value of the
   parameter, f.params = copy of orig_params *)
scan_done(rng, succ) ==
    LET name == param_names[i]
        value == orig_params[1][name].value
        right == Abs(ranges_get(rng, name, "right") - value)
        left == Abs(ranges_get(rng, name, "left") - value)
        unc == IF right >= left THEN right ELSE left
    IN /\ warned' = IF ~succ THEN warned \cup {name} ELSE warned
       /\ ranges' = ranges_set(ranges_set(rng, name, "uncertainty", unc),
                               name, "value", value)
       /\ f_params' = orig_params[1]
       /\ IF i < Len(param_names)
          THEN /\ i' = i + 1
               /\ search_value' = orig_params[1][param_names[i + 1]].value
               /\ success' = FALSE
               /\ pc' = "cau_right"
          ELSE /\ i' = i
               /\ search_value' = value
               /\ success' = succ
               /\ pc' = "cau_finish"

(* lines 791-821: one pass of the loop searching to the left *)
scan_left ==
    /\ pc = "cau_left"
    /\ LET name == param_names[i]
           value == orig_params[1][name].value
           stderr == scan_stderr(value, orig_params[1][name].stderr)
           sv == search_value - half(stderr)
       IN IF sv < f_bounds[name].min
          THEN /\ hit' = hit \cup { <<name, "left">> }
               /\ scan_done(ranges_set(ranges, name, "left", f_bounds[name].min),
                            left_limit_success(success))
               /\ UNCHANGED <<f_chisqr, f_mle_likelihood, f_chisq_res_par, f_ndof, f_mle_fit, exc,
                              probed>>
          ELSE /\ Abs(sv - value) <= MaxProbes * half(stderr)
               /\ \/ \E o \in probe_raised(sv, name) :
                        cau_raise(o, o.exc) /\ probed' = Probe(sv, name, o)
                  \/ \E o \in probe_below(sv, name) :
                        /\ SetModel(o, mapped)
                        /\ probed' = Probe(sv, name, o)
                        /\ search_value' = sv
                        /\ pc' = "cau_left"
                        /\ UNCHANGED <<success, exc, ranges, warned, hit, i>>
                  \/ /\ \E o \in probe_above(sv, name) : probed' = Probe(sv, name, o)
                     /\ \E r \in ridder(value, sv, name) :
                           IF r.exc # "none"
                           THEN cau_raise(r.o, r.exc)
                           ELSE /\ SetAttrs(r.o, mapped)
                                /\ scan_done(ranges_set(ranges, name, "left", r.root),
                                             success /\ r.converged)
                                /\ UNCHANGED <<exc, hit>>
    /\ UNCHANGED <<fn, f_bounds, othervars, stored, ret, fitlocals, method, filter, mapped,
                   orig_value, orig_params, param_names>>

(* lines 823-829: the uncertainties go into orig_params, which is stored
   under save_attr and becomes f.params; the function returns None *)
final_params_kept(params, rng) ==
    [n \in Names |->
        IF ranges_has(rng, n, "uncertainty")
        THEN [params[n] EXCEPT !.stderr = ranges_get(rng, n, "uncertainty"),
                               !.value = ranges_get(rng, n, "value")]
        ELSE params[n]]
final_params(params, rng) ==
    [n \in Names |->
        IF ranges_has(rng, n, "uncertainty")
        THEN [params[n] EXCEPT !.stderr = ranges_get(rng, n, "uncertainty"),
                               !.value = ranges_get(rng, n, "value")]
        ELSE [params[n] EXCEPT !.stderr = None]]

calculate_analytical_uncertainty_finish ==
    /\ pc = "cau_finish"
    /\ LET op == final_params(orig_params[1], ranges)
       IN /\ orig_params' = << op >>
          /\ f_params' = op
          /\ f_chisq_res_par' = IF mapped[3] = "chisq_res_par" THEN << op >>
                                ELSE f_chisq_res_par
          /\ f_mle_fit' = IF mapped[3] = "mle_fit" THEN << op >> ELSE f_mle_fit
    /\ UNCHANGED f_ndof
    /\ ret' = <<>>
    /\ pc' = "returned"
    /\ UNCHANGED <<fn, f_bounds, othervars, f_chisqr, f_mle_likelihood, success, exc, stored,
                   fitlocals, method, filter, mapped, orig_value, param_names, i,
                   search_value, ranges, warned, hit, probed>>

-----------------------------------------------------------------------------
(* likelihood_walk(f, x, y, xerr, func, nsteps, walkers, filename) and its
   store, the dataset 'data' of the HDF5 file `filename`.

   Values, bounds and positions are here in units of 1e-5, the distance at
   which lines 882-883 put a walker back from a bound.  A row of the store is
   known by the walk, step and walker that wrote it; an unwritten row holds
   the fill value of the dataset. *)

ClipOffset == 1

Row(c, k, j) == [walk |-> c, step |-> k, walker |-> j]
Unwritten == Row(0, 0, 0)

(* result[0] of step k of walk c: one row per walker *)
Batch(c, k, w) == [j \in 1..w |-> Row(c, k, j)]

(* line 880: mcmc.utils.sample_ball(vars, [1e-4] * len(vars), size=walkers),
   a gaussian ball around the values of the free parameters *)
Perturbations == -MaxPert..MaxPert
sample_ball(params, perts) ==
    [j \in 1..Len(perts) |->
        [n \in VarNames(params) |-> params[n].value + perts[j][n]]]

(* lines 882-883: np.where(pos < min, min + 1E-5, pos), then
   np.where(pos > max, max - 1E-5, pos) *)
clip(p, min, max) ==
    LET a == IF p < min THEN min + ClipOffset ELSE p
    IN IF a > max THEN max - ClipOffset ELSE a

(* lines 872-883: the initial positions of the walkers *)
initial_positions(params, perts) ==
    LET around == sample_ball(params, perts)
    IN [j \in 1..Len(around) |->
          [n \in VarNames(params) |-> clip(around[j][n], f_bounds[n].min, f_bounds[n].max)]]

(* line 911: dset[-walkers:, :] *)
last_rows(rows, w) ==
    SubSeq(rows, IF Len(rows) > w THEN Len(rows) - w + 1 ELSE 1, Len(rows))

(* lines 912 and 921: dset.resize(n, axis=0) and create_dataset('data', (n, ndim)),
   which give the dataset n rows, the new ones unwritten *)
resize(rows, n) == rows \o [k \in 1..(n - Len(rows)) |-> Unwritten]

(* lines 917 and 927: the first row of the slice step i is written to *)
write_at_unshifted(off, step, w) == step * w
write_at(off, step, w) == off + step * w

(* dset[a:a + walkers, :] = result *)
write(rows, a, batch) ==
    [k \in 1..Len(rows) |->
        IF a < k /\ k <= a + Len(batch) THEN batch[k - a] ELSE rows[k]]

(* leaving "with h5py.File(filename, ...) as store" closes the file, on a
   normal exit and on an exception alike *)
with_exit_leak(open) == open
with_exit(open) == FALSE

(* lines 872-912 and 920-922: the initial positions, the sampler, the store
   opened (and created or enlarged to hold every step of this walk) *)
likelihood_walk_start ==
    /\ pc = "idle"
    /\ f_mle_fit # <<>>
    /\ walks < MaxWalks
    /\ fn' = "walk"
    /\ walks' = walks + 1
    /\ held' = f_params
    /\ w_i' = 0
    /\ ret' = <<>>
    /\ \E w \in 1..MaxWalkers, n \in 1..MaxSteps :
          /\ walkers' = w
          /\ nsteps' = n
          /\ \E perts \in [1..w -> [VarNames(f_mle_fit[1]) -> Perturbations]] :
                ball' = initial_positions(f_mle_fit[1], perts)
          /\ \/ /\ file # <<>>
                /\ offset' = Len(file[1])
                /\ pos' = last_rows(file[1], w)
                /\ file' = << resize(file[1], Len(file[1]) + n * w) >>
                /\ file_open' = TRUE
                /\ pc' = "walking"
                /\ exc' = "none"
             \/ /\ file = <<>>
                /\ offset' = 0
                /\ pos' = Batch(walks + 1, 0, w)
                /\ file' = << resize(<<>>, n * w) >>
                /\ file_open' = TRUE
                /\ pc' = "walking"
                /\ exc' = "none"
             \/ /\ offset' = 0
                /\ pos' = Batch(walks + 1, 0, w)
                /\ file_open' = FALSE
                /\ pc' = "raised"
                /\ exc' = "OSError"
                /\ UNCHANGED file
    /\ UNCHANGED <<f_params, f_bounds, f_chisqr, f_mle_likelihood, f_mle_fit,
                   f_chisq_res_par, f_ndof, success, stored, fitlocals, profvars,
                   f_appended, extravars, linkvars>>

(* lines 915-918 and 925-928: one step of the sampler, which evaluates
   lnprobList (f.params = groupParams at a proposed position, line 337), and
   the write of its batch; the sampler (also when pos has not one row per
   walker) or the write can raise *)
likelihood_walk_step ==
    /\ pc = "walking"
    /\ w_i < nsteps
    /\ \E probe \in [VarNames(f_mle_fit[1]) -> Vals] :
          f_params' = groupParams(f_mle_fit[1], probe)
    /\ \/ /\ Len(pos) = walkers
          /\ file' = << write(file[1], write_at(offset, w_i, walkers),
                              Batch(walks, w_i + 1, walkers)) >>
          /\ w_i' = w_i + 1
          /\ UNCHANGED <<pc, exc, file_open>>
       \/ /\ pc' = "raised"
          /\ exc' = "WalkError"
          /\ file_open' = with_exit(file_open)
          /\ UNCHANGED <<file, w_i>>
    /\ UNCHANGED <<fn, f_bounds, f_chisqr, f_mle_likelihood, f_mle_fit,
                   f_chisq_res_par, f_ndof, success, ret, stored, fitlocals, profvars,
                   f_appended, extravars, linkvars, walkers, nsteps, offset, pos, ball, walks,
                   held>>

(* the end of the loop and of the with block, and lines 930-931:
   f.mle_fit = params, f.params = params *)
likelihood_walk_finish ==
    /\ pc = "walking"
    /\ w_i = nsteps
    /\ file_open' = with_exit(file_open)
    /\ f_params' = f_mle_fit[1]
    /\ pc' = "returned"
    /\ UNCHANGED <<fn, f_bounds, f_chisqr, f_mle_likelihood, f_mle_fit,
                   f_chisq_res_par, f_ndof, success, ret, exc, stored, fitlocals,
                   profvars, f_appended, extravars, linkvars, file, walkers, nsteps, w_i,
                   offset, pos, ball, walks, held>>

-----------------------------------------------------------------------------
(* The name of the store file of likelihood_walk, lines 901-921.  A file name
   is the sequence of the pieces its dots separate, so that 'walkA.h5' is
   <<"walkA", "h5">> and 'walkA' is <<"walkA">>; the store is followed here
   file by file, each with the walks written to it. *)

(* the names a caller gives; <<>> stands for None *)
StoreNames ==
    { <<>>, <<"walkA">>, <<"walkB">>, <<"walkA", "h5">>, <<"walkB", "h5">>,
      <<"walkA", "txt">> }

(* time.time() at the k-th call, as the piece it gives the file name *)
Clock == <<"t1", "t2", "t3", "t4">>

(* filename.split('.')[:-1] *)
all_but_last(parts) == SubSeq(parts, 1, Len(parts) - 1)

(* '.'.join(pieces) + '.h5': the join of no piece is the empty string *)
join_h5(pieces) == (IF pieces = <<>> THEN <<"">> ELSE pieces) \o <<"h5">>

(* lines 901-905: the name of the file for the argument filename at call k *)
store_file(filename, k) ==
    IF filename = <<>>
    THEN <<Clock[k], "h5">>
    ELSE join_h5(all_but_last(filename))

(* likelihood_walk(f, x, y, filename=...), run to its end: the file of that
   name is opened if it is there ('a') and created if not ('w'), the walk is
   written to it, and f.params is f.mle_fit again *)
likelihood_walk_store ==
    /\ pc = "idle"
    /\ f_mle_fit # <<>>
    /\ named_walks < MaxNamedWalks
    /\ named_walks' = named_walks + 1
    /\ \E filename \in StoreNames :
          disk' = disk \cup { << store_file(filename, named_walks + 1), named_walks + 1,
                                IF filename = <<>> THEN <<Clock[named_walks + 1]>>
                                ELSE filename >> }
    /\ f_params' = f_mle_fit[1]
    /\ UNCHANGED <<pc, fn, f_bounds, f_chisqr, f_mle_likelihood, f_mle_fit,
                   f_chisq_res_par, f_ndof, success, ret, exc, stored, fitlocals,
                   profvars, f_appended, walkvars, linkvars, hess_zero, f_correl>>

-----------------------------------------------------------------------------
(* Parameter linking: SumModel.shared (summodel.py) and
   SingleSpectrum.fix_ratio / set_ratios (singlespectrum.py).

   A parameter name is the sequence of the pieces it is written with, so
   that 's0_FWHMG' is <<"s0_", "FWHM", "G">> and Python's "name in p" is the
   test that one sequence occurs inside the other.  A parameter is here its
   expr (<<>> for None) and its vary flag. *)

Prefixes == << <<"s0_">>, <<"s1_">> >>
ChildNames == << <<"FWHM", "G">>, <<"Total", "FWHM">>, <<"Al">>, <<"Au">> >>
Formula == <<"0.5346*FWHML+sqrt(0.2166*FWHML**2+FWHMG**2)">>

(* params.keys() of the SumModel: the parameters of child 0, then of child 1 *)
KeyOrder ==
    [k \in 1..(Len(Prefixes) * Len(ChildNames)) |->
        Prefixes[((k - 1) \div Len(ChildNames)) + 1]
            \o ChildNames[((k - 1) % Len(ChildNames)) + 1]]
SumNames == { KeyOrder[k] : k \in 1..Len(KeyOrder) }

(* the parameters of a SumModel as constructed: every parameter free and
   without expr, except TotalFWHM, which the child defines by a formula *)
InitialSumParams ==
    [p \in SumNames |->
        IF \E k \in 1..Len(Prefixes) : p = Prefixes[k] \o <<"Total", "FWHM">>
        THEN [expr |-> Formula, vary |-> FALSE]
        ELSE [expr |-> <<>>, vary |-> TRUE]]

(* the names a caller puts in shared, and the lists of them *)
LinkNames == { <<"FWHM">>, <<"Total", "FWHM">>, <<"Al">>, <<"Au">> }
Shareds ==
    UNION { [1..n -> LinkNames] : n \in 0..MaxShared }

(* name in p *)
contains(name, p) ==
    \E k \in 0..(Len(p) - Len(name)) : SubSeq(p, k + 1, k + Len(name)) = name

(* params[p].expr = e.  What the assignment does to vary is lmfit's: its
   Parameter either keeps expr as a plain attribute or clears vary in the
   setter. *)
set_expr(par, e) ==
    [expr |-> e, vary |-> IF lmfit_fixes THEN FALSE ELSE par.vary]

(* summodel.py lines 65-71: one name of the list *)
selected_list(name) == SelectSeq(KeyOrder, LAMBDA p : contains(name, p))
link_one_first_too(params, name) ==
    LET sel == selected_list(name)
    IN [p \in SumNames |->
          IF \E k \in 1..Len(sel) : sel[k] = p
          THEN set_expr(params[p], sel[1])
          ELSE params[p]]
link_one(params, name) ==
    LET sel == selected_list(name)
    IN [p \in SumNames |->
          IF \E k \in 2..Len(sel) : sel[k] = p
          THEN set_expr(params[p], sel[1])
          ELSE params[p]]

(* summodel.py lines 62-72: the loop over the list, from a copy of the
   current parameters *)
RECURSIVE link_all(_, _)
link_all(params, names) ==
    IF names = <<>> THEN params
    ELSE link_all(link_one(params, Head(names)), Tail(names))

(* SumModel.shared = value *)
shared_setter ==
    /\ pc = "idle"
    /\ \E value \in Shareds :
          /\ shared' = value
          /\ sum_params' = link_all(sum_params, value)
    /\ UNCHANGED <<pc, fn, f_params, f_bounds, f_chisqr, f_mle_likelihood, f_mle_fit,
                   f_chisq_res_par, f_ndof, success, ret, exc, stored, fitlocals,
                   profvars, f_appended, extravars, walkvars, spec_params, ratios,
                   lmfit_fixes>>

(* SingleSpectrum: the hyperfine parameters a ratio can tie, lower and upper *)
RatioParameters == {"A", "B"}
Lower(x) == IF x = "A" THEN <<"Al">> ELSE <<"Bl">>
Upper(x) == IF x = "A" THEN <<"Au">> ELSE <<"Bu">>
SpectrumNames == UNION { {Lower(x), Upper(x)} : x \in RatioParameters }
InitialSpectrumParams == [p \in SpectrumNames |-> [expr |-> <<>>, vary |-> TRUE]]

(* singlespectrum.py lines 217-228: set_ratios(par); rs[x] is "none" for a
   ratio whose value is None, else its target *)
set_ratios(par, rs) ==
    [p \in SpectrumNames |->
        IF \E x \in RatioParameters :
              /\ rs[x] # "none"
              /\ p = (IF rs[x] = "lower" THEN Lower(x) ELSE Upper(x))
        THEN LET x == CHOOSE x \in RatioParameters :
                         /\ rs[x] # "none"
                         /\ p = (IF rs[x] = "lower" THEN Lower(x) ELSE Upper(x))
                 free == IF rs[x] = "lower" THEN Upper(x) ELSE Lower(x)
             IN [set_expr(par[p], <<"ratio*">> \o free) EXCEPT !.vary = FALSE]
        ELSE par[p]]

(* singlespectrum.py lines 435-458: fix_ratio(value, target, parameter) *)
fix_ratio ==
    /\ pc = "idle"
    /\ \E value \in {None, 2}, target \in {"lower", "upper"}, x \in RatioParameters :
          /\ ratios' = [ratios EXCEPT ![x] = IF value = None THEN "none" ELSE target]
          /\ spec_params' = set_ratios(spec_params, ratios')
    /\ UNCHANGED <<pc, fn, f_params, f_bounds, f_chisqr, f_mle_likelihood, f_mle_fit,
                   f_chisq_res_par, f_ndof, success, ret, exc, stored, fitlocals,
                   profvars, f_appended, extravars, walkvars, sum_params, shared,
                   lmfit_fixes>>

(* the walk store and the linked models before anything is done with them *)
InitWalkIdle ==
    /\ file = <<>> /\ file_open = FALSE
    /\ walkers = 0 /\ nsteps = 0 /\ w_i = 0 /\ offset = 0
    /\ ball = <<>> /\ pos = <<>> /\ walks = 0
    /\ held = f_params

InitLinkIdle ==
    /\ sum_params = InitialSumParams
    /\ shared = <<>>
    /\ spec_params = InitialSpectrumParams
    /\ ratios = [x \in RatioParameters |-> "none"]

(* the variables of calculate_analytical_uncertainty outside a call of it *)
InitProfileLocals ==
    /\ method = "" /\ filter = <<>> /\ mapped = <<>>
    /\ orig_value = None /\ orig_params = <<>> /\ param_names = <<>>
    /\ i = 0 /\ search_value = 0 /\ ranges = {} /\ warned = {} /\ hit = {}
    /\ probed = <<>>

InitFit ==
    /\ pc = "idle"
    /\ fn = "none"
    /\ f_chisqr = None
    /\ f_mle_likelihood = None
    /\ f_mle_fit = <<>>
    /\ result_params = f_params
    /\ result_message = 0 /\ val = 0 /\ success = FALSE /\ counter = 0
    /\ xerr = 0 /\ walking = FALSE
    /\ stored = {}
    /\ ret = <<>> /\ exc = "none"
    /\ reruns = 0 /\ objs = <<0, 0>> /\ used = {} /\ loop_ended = FALSE
    /\ f_chisq_res_par = <<>>
    /\ f_ndof = None
    /\ InitProfileLocals
    /\ InitWalkIdle
    /\ InitLinkIdle

(* A model as constructed: values at their initial guess, no uncertainties
   yet, any choice of free parameters. *)
InitialParameterSets ==
    { p \in ParameterSets : \A n \in Names : p[n].stderr = None /\ p[n].value = 0 }

(* chisquare_fit, called any number of times on one model *)
InitChisquare ==
    /\ f_params \in InitialParameterSets
    /\ f_bounds = [n \in Names |-> Unbounded]
    /\ f_appended \in 0..MaxAppended
    /\ lmfit_fixes = FALSE
    /\ hess_zero = FALSE
    /\ f_correl = NoCorrel
    /\ disk = {} /\ named_walks = 0
    /\ InitFit

NextChisquare ==
    \/ chisquare_fit_start
    \/ chisquare_fit_refit
    \/ chisquare_fit_finish
    \/ next_call

SpecChisquare == InitChisquare /\ [][NextChisquare]_vars

(* likelihood_fit, likelihood_walk and the Hessian estimate, called any number
   of times on one model whose parameter p2 is fixed *)
InitLikelihood ==
    /\ f_params \in { p \in InitialParameterSets : ~p["p2"].vary }
    /\ f_bounds = [n \in Names |-> Unbounded]
    /\ f_appended = 0
    /\ lmfit_fixes = FALSE
    /\ hess_zero = FALSE
    /\ f_correl = NoCorrel
    /\ disk = {} /\ named_walks = 0
    /\ InitFit

NextLikelihood ==
    \/ likelihood_fit_start
    \/ likelihood_fit_refit
    \/ likelihood_fit_hessian
    \/ likelihood_fit_walk
    \/ likelihood_fit_return
    \/ standalone_likelihood_walk
    \/ standalone_hessian
    \/ next_call

SpecLikelihood == InitLikelihood /\ [][NextLikelihood]_vars

(* one call of calculate_analytical_uncertainty on a model as constructed,
   whose parameter p1 is unbounded or bounded around its initial value *)
InitProfile ==
    /\ f_params \in InitialParameterSets
    /\ f_bounds \in { [n \in Names |-> IF n = "p1" THEN b ELSE Unbounded]
                        : b \in {Unbounded, Around(0)} }
    /\ f_appended = 0
    /\ lmfit_fixes = FALSE
    /\ hess_zero = FALSE
    /\ f_correl = NoCorrel
    /\ disk = {} /\ named_walks = 0
    /\ InitFit

NextProfile ==
    \/ calculate_analytical_uncertainty_start
    \/ scan_right
    \/ scan_left
    \/ calculate_analytical_uncertainty_finish

SpecProfile == InitProfile /\ [][NextProfile]_vars

(* calculate_analytical_uncertainty, called once on a model with p1 free and
   p2 fixed whose Hessian estimate can deliver a zero standard error *)
InitScan ==
    /\ f_params \in { p \in InitialParameterSets : p["p1"].vary /\ ~p["p2"].vary }
    /\ f_bounds \in { [n \in Names |-> IF n = "p1" THEN b ELSE Unbounded]
                        : b \in {Unbounded, Around(0)} }
    /\ f_appended = 0
    /\ lmfit_fixes = FALSE
    /\ hess_zero = TRUE
    /\ f_correl = NoCorrel
    /\ disk = {} /\ named_walks = 0
    /\ InitFit

SpecScan == InitScan /\ [][NextProfile]_vars

(* assignHessianEstimate, called on its own any number of times on a model
   in any state of its parameters and of their correl attributes *)
CorrelAttributes ==
    [Names -> {<<>>} \cup { << k >> : k \in SUBSET Names }]

InitHessian ==
    /\ f_params \in ParameterSets
    /\ f_bounds = [n \in Names |-> Unbounded]
    /\ f_appended = 0
    /\ lmfit_fixes = FALSE
    /\ hess_zero \in BOOLEAN
    /\ f_correl \in CorrelAttributes
    /\ disk = {} /\ named_walks = 0
    /\ InitFit

NextHessian ==
    \/ standalone_hessian
    \/ next_call

SpecHessian == InitHessian /\ [][NextHessian]_vars

(* the same, the loops of the function being run as long as they can *)
SpecScanFair == SpecScan /\ WF_vars(NextProfile)

(* likelihood_walk, called up to MaxWalks times on one store file, on a model
   that a likelihood fit has left at its optimum (p1 free, p2 fixed), p1
   being unbounded or bounded within MaxWidth of the optimum *)
WalkBounds(v) ==
    {Unbounded} \cup { [min |-> v - a, max |-> v + b] : a, b \in 0..MaxWidth }

InitWalk ==
    /\ f_params \in { p \in ParameterSets :
                        /\ p["p1"].vary /\ ~p["p2"].vary
                        /\ p["p2"].value = 0
                        /\ \A n \in Names : p[n].stderr = None }
    /\ f_bounds \in { [n \in Names |-> IF n = "p1" THEN b ELSE Unbounded]
                        : b \in WalkBounds(f_params["p1"].value) }
    /\ f_appended = 0
    /\ lmfit_fixes = FALSE
    /\ hess_zero = FALSE
    /\ f_correl = NoCorrel
    /\ disk = {} /\ named_walks = 0
    /\ pc = "idle" /\ fn = "none"
    /\ f_chisqr = None /\ f_mle_likelihood = 0 /\ f_mle_fit = << f_params >>
    /\ f_chisq_res_par = <<>> /\ f_ndof = None
    /\ result_params = f_params
    /\ result_message = 0 /\ val = 0 /\ success = FALSE /\ counter = 0
    /\ xerr = 0 /\ walking = FALSE /\ stored = {}
    /\ ret = <<>> /\ exc = "none"
    /\ reruns = 0 /\ objs = <<0, 0>> /\ used = {} /\ loop_ended = FALSE
    /\ InitProfileLocals
    /\ InitWalkIdle
    /\ InitLinkIdle

NextWalk ==
    \/ likelihood_walk_start
    \/ likelihood_walk_step
    \/ likelihood_walk_finish
    \/ next_call

SpecWalk == InitWalk /\ [][NextWalk]_vars

(* likelihood_walk, called up to MaxNamedWalks times with a store name on
   the same model *)
NextStoreNames == likelihood_walk_store

SpecStoreNames == InitWalk /\ [][NextStoreNames]_vars

(* the linking operations on a SumModel of two children and on a
   SingleSpectrum, in any order, with either behaviour of lmfit *)
InitLinking ==
    /\ f_params \in { p \in InitialParameterSets : \A n \in Names : p[n].vary }
    /\ f_bounds = [n \in Names |-> Unbounded]
    /\ f_appended = 0
    /\ lmfit_fixes \in BOOLEAN
    /\ hess_zero = FALSE
    /\ f_correl = NoCorrel
    /\ disk = {} /\ named_walks = 0
    /\ InitFit

NextLinking ==
    \/ shared_setter
    \/ fix_ratio

SpecLinking == InitLinking /\ [][NextLinking]_vars

-----------------------------------------------------------------------------
(* Properties of the fit entry points *)

Ended == pc \in {"returned", "raised"}

(* C1: chisquare_fit re-runs the minimizer at most 10 times after the first
   run, leaving the loop with success = False when the chi-square never
   becomes close between successive runs. *)
C1_ChisquareRefitCap ==
    fn = "chisquare" => reruns <= RefitCap

C3_NonConvergenceReturned ==
    (fn \in {"chisquare", "likelihood"} /\ Ended /\ loop_ended) =>
        IF isclose(objs[1], objs[2])
        THEN pc = "returned" => ret[1].success
        ELSE /\ pc = "returned"
             /\ ret = << [success |-> FALSE, message |-> result_message] >>
             /\ f_params = result_params

(* C4: the convolution cache is empty whenever likelihood_fit has ended, by
   a return or by an exception. *)
C4_CacheEmptyAtEnd ==
    (fn = "likelihood" /\ Ended) => stored = {}

(* C5: every convolution evaluated during a likelihood_fit works with an
   entry built from that call's own xerr. *)
C5_OwnEntry ==
    fn = "likelihood" => used \subseteq {Entry(xerr)}

(* C10: a singular Hessian does not abort a fit: no fit ends with the
   LinAlgError of the inversion. *)
C10_SingularHessianNoAbort ==
    ~(fn \in {"chisquare", "likelihood"} /\ pc = "raised" /\ exc = "LinAlgError")

-----------------------------------------------------------------------------
(* Properties of calculate_analytical_uncertainty *)

SameValuesAndFlags(p, q) ==
    \A n \in Names : p[n].value = q[n].value /\ p[n].vary = q[n].vary

(* C6: on every exit path after its initial fit, by return or by exception,
   calculate_analytical_uncertainty leaves f.params with the values and free
   flags the initial fit produced. *)
C6_RestoredOnEveryExit ==
    (fn = "analytical" /\ Ended /\ orig_params # <<>>) =>
        SameValuesAndFlags(f_params, orig_params[1])

Opposite(side) == IF side = "right" THEN "left" ELSE "right"
BoundOf(name, side) == IF side = "right" THEN f_bounds[name].max ELSE f_bounds[name].min

C7_State ==
    fn = "analytical" =>
        /\ \A h \in hit :
              /\ ranges_has(ranges, h[1], h[2])
              /\ ranges_get(ranges, h[1], h[2]) = BoundOf(h[1], h[2])
              /\ ranges_has(ranges, h[1], "uncertainty") =>
                    /\ h[1] \in warned
                    /\ ranges_has(ranges, h[1], Opposite(h[2]))
        /\ pc = "returned" =>
              \A k \in 1..Len(param_names) :
                 /\ ranges_has(ranges, param_names[k], "left")
                 /\ ranges_has(ranges, param_names[k], "right")
                 /\ ranges_has(ranges, param_names[k], "uncertainty")

C7_Step ==
    hit' # hit =>
        /\ pc' \in {"cau_left", "cau_right", "cau_finish"}
        /\ exc' = "none"
        /\ (pc = "cau_left" /\ i < Len(param_names)) => (pc' = "cau_right" /\ i' = i + 1)

(* C7: a scan that reaches the parameter's bound on either side raises
   nothing: the bound is recorded for that side, the scan goes on with the
   other side or the next selected parameter, the parameter is warned about
   once both sides are done and has the opposite boundary recorded, and on
   return every selected parameter has its left and right boundary and its
   uncertainty. *)
C7_BoundHitIsWarning == []C7_State /\ [][C7_Step]_vars

(* returned with two selected parameters: p1 met its right bound and was
   warned about, p2 met no bound, was not warned about, and has its interval *)
C7_Witness ==
    /\ fn = "analytical"
    /\ pc = "returned"
    /\ Len(param_names) = 2
    /\ <<"p1", "right">> \in hit
    /\ "p1" \in warned
    /\ "p2" \notin warned
    /\ ranges_has(ranges, "p2", "left")
    /\ ranges_has(ranges, "p2", "right")

(* C8: after calculate_analytical_uncertainty has returned, the left and
   right boundary of every selected parameter are in the return value, or
   follow from what the model holds: the value and the one uncertainty. *)
C8_RawBoundariesRetrievable ==
    (fn = "analytical" /\ pc = "returned") =>
        \A k \in 1..Len(param_names) :
           LET n == param_names[k]
           IN \/ ret # <<>>
              \/ /\ ranges_get(ranges, n, "left") = f_params[n].value - f_params[n].stderr
                 /\ ranges_get(ranges, n, "right") = f_params[n].value + f_params[n].stderr

SupportedMethods == {"chisquare_spectroscopic", "chisquare", "mle"}

(* C9: a call with a method name that is none of chisquare_spectroscopic,
   chisquare and mle ends with a configuration error, and nothing else
   happens in it. *)
C9_UnknownMethodFailsFast ==
    (fn = "analytical" /\ lower(method) \notin SupportedMethods) =>
        (pc = "raised" /\ exc = "ConfigurationError")

-----------------------------------------------------------------------------
(* Properties of likelihood_walk and its store *)

(* the second walk on the store has returned, and the rows the store had when
   it started are those of a first walk that ran to completion with the same
   number of walkers: none of them is unwritten and the last is the row of
   walker number `walkers` *)
SecondOfTwoCompleted ==
    /\ fn = "walk" /\ pc = "returned"
    /\ walks = 2
    /\ offset > 0
    /\ \A k \in 1..offset : file[1][k] # Unwritten
    /\ file[1][offset].walker = walkers

(* C11: after two walks run to completion on one store with the same number
   of walkers, the store has (nsteps1 + nsteps2) x walkers rows, and its first
   nsteps1 x walkers rows are the rows the first walk wrote, in their order. *)
C11_ResumeKeepsFirstRun ==
    SecondOfTwoCompleted =>
        LET nsteps1 == file[1][offset].step
        IN /\ Len(file[1]) = (nsteps1 + nsteps) * walkers
           /\ \A k \in 1..(nsteps1 * walkers) :
                 file[1][k] = Row(1, ((k - 1) \div walkers) + 1, ((k - 1) % walkers) + 1)

(* two walks of two steps and two walkers each have completed *)
C11_Witness ==
    /\ SecondOfTwoCompleted
    /\ walkers = 2 /\ nsteps = 2
    /\ Len(file[1]) = 8
    /\ file[1][8] = Row(2, 2, 2)

(* a walk has opened the store: it is going on or has ended *)
WalkOnStore ==
    /\ fn = "walk"
    /\ pc \in {"walking", "returned", "raised"}
    /\ exc # "OSError"

(* C12: the store grows by one batch per completed step: its row count is
   the row count before the walk plus (completed steps) x walkers, and none
   of its rows is unwritten, at every moment of a walk and after it has
   ended, completed or not. *)
C12_OneBatchPerStep ==
    WalkOnStore =>
        /\ Len(file[1]) = offset + w_i * walkers
        /\ \A k \in 1..Len(file[1]) : file[1][k] # Unwritten

(* the rows the store held before this walk that were written *)
WrittenBefore == { k \in 1..offset : file[1][k] # Unwritten }
LastWrittenBefore == CHOOSE k \in WrittenBefore : \A m \in WrittenBefore : m <= k

(* C13: a walk on an existing store starts from rows that were written, all
   of them by the last step the previous walk recorded. *)
C13_SeededFromLastRecorded ==
    (WalkOnStore /\ offset > 0) =>
        /\ WrittenBefore # {}
        /\ \A j \in 1..Len(pos) :
              /\ pos[j] # Unwritten
              /\ pos[j].walk = file[1][LastWrittenBefore].walk
              /\ pos[j].step = file[1][LastWrittenBefore].step

(* C14: during a walk and after it has ended, by a return or an exception,
   the values of f.params are those f.params held when the walk started. *)
C14_WalkKeepsParams ==
    fn = "walk" => \A n \in Names : f_params[n].value = held[n].value

(* C15: the store file is open only while a likelihood_walk call is running:
   it is closed once the call has ended, by a return or by an exception, and
   between calls. *)
C15_StoreClosedOutsideWalk ==
    file_open => (fn = "walk" /\ pc = "walking")

(* the sampler or a write raised after the first batch of a walk of two
   steps was written, and the store is closed *)
C15_Witness ==
    /\ fn = "walk" /\ pc = "raised" /\ exc = "WalkError"
    /\ nsteps = 2 /\ w_i = 1
    /\ ~file_open

(* C19: every initial position lines 880-883 produce is strictly inside the
   bounds of its parameter. *)
C19_InitialPositionsInside ==
    (fn = "walk" /\ pc # "idle") =>
        \A j \in 1..Len(ball) : \A n \in DOMAIN ball[j] :
            f_bounds[n].min < ball[j][n] /\ ball[j][n] < f_bounds[n].max

-----------------------------------------------------------------------------
(* Properties of parameter linking *)

(* p is a child prefix followed by name, and the first such parameter *)
IsPrefixed(p, name) == \E k \in 1..Len(Prefixes) : p = Prefixes[k] \o name
FirstPrefixed(name) == Prefixes[1] \o name

C16_State ==
    \A k \in 1..Len(shared) : \A p \in SumNames :
        (IsPrefixed(p, shared[k]) /\ p # FirstPrefixed(shared[k])) =>
            sum_params[p].expr = FirstPrefixed(shared[k])

C16_Step ==
    \A p \in SumNames :
        sum_params'[p].expr # sum_params[p].expr =>
            \E k \in 1..Len(shared') :
                /\ IsPrefixed(p, shared'[k])
                /\ p # FirstPrefixed(shared'[k])
                /\ sum_params'[p].expr = FirstPrefixed(shared'[k])

(* C16: linking the names of a list changes the expr of exactly the
   parameters that are a child prefix followed by one of the names, the
   first of them excepted, and makes each the name of that first one; the
   expr of every other parameter stays as it was. *)
C16_LinksExactNamesOnly == []C16_State /\ [][C16_Step]_vars

(* the parameters whose expr is the name of another parameter of the set *)
Linked(params) == { p \in SumNames : params[p].expr \in SumNames }

(* C17: the parameters carrying a link are those the current list links when
   it is applied to the parameters as constructed, whatever lists were set
   before it. *)
C17_LinkingReplaces ==
    Linked(sum_params) = Linked(link_all(InitialSumParams, shared))

C20_DegreesOfFreedom ==
    (fn \in {"chisquare", "likelihood"} /\ pc = "returned") =>
        /\ IF fn = "chisquare" THEN f_chisqr # None ELSE f_mle_likelihood # None
        /\ f_ndof = NumData - Cardinality(VarNames(f_params))

-----------------------------------------------------------------------------
(* Properties of the profile scan of calculate_analytical_uncertainty *)

Scanning == pc \in {"cau_right", "cau_left"}
ScanName == param_names[i]
V0 == orig_params[1][ScanName].value

(* the step of the scan: half the standard error of the parameter, or half
   of 1% of |v0| when the standard error is missing or zero *)
HalfStep ==
    LET s == orig_params[1][ScanName].stderr
    IN (IF s = None \/ s = 0 THEN Abs(V0) \div PercentInv ELSE s) \div HalfInv

(* the increase d of the objective is above 1.0, or above 0.5 for 'mle' *)
Exceeds(d) == 2 * d > (IF lower(method) = "mle" THEN 1 ELSE 2)

(* the last probe was at k steps from v0, inside the bounds *)
C21_State ==
    /\ pc = "cau_right" =>
          /\ \E k \in 0..MaxProbes : search_value = V0 + k * HalfStep
          /\ search_value <= f_bounds[ScanName].max
    /\ pc = "cau_left" =>
          /\ \E k \in 0..MaxProbes : search_value = V0 - k * HalfStep
          /\ search_value >= f_bounds[ScanName].min

(* one pass of a scan loop: the probe is one step further; beyond the bound
   nothing is fitted and the scan ends at the bound; otherwise the probe is
   fitted and the scan goes on exactly when the increase is not above the
   threshold *)
C21_Step ==
    Scanning =>
        LET right == pc = "cau_right"
            sv == IF right THEN search_value + HalfStep ELSE search_value - HalfStep
            beyond == IF right THEN sv > f_bounds[ScanName].max
                      ELSE sv < f_bounds[ScanName].min
            goes_on == pc' = pc /\ i' = i
        IN IF beyond
           THEN /\ ~goes_on /\ pc' # "raised"
                /\ probed' = probed
                /\ UNCHANGED <<f_chisqr, f_mle_likelihood>>
                /\ ranges_get(ranges', ScanName, IF right THEN "right" ELSE "left")
                      = (IF right THEN f_bounds[ScanName].max ELSE f_bounds[ScanName].min)
           ELSE /\ probed' # <<>>
                /\ probed'[1].at = sv
                /\ goes_on => search_value' = sv
                /\ probed'[1].exc = "none" =>
                      (goes_on <=> ~Exceeds(probed'[1].delta))

(* C21: in each direction the k-th probe of a parameter is at v0 + k x 0.5 x s
   (right) or v0 - k x 0.5 x s (left), s being its standard error or 1% of
   |v0| when that is missing or zero; the scan stops at the first probe whose
   objective is more than 1.0 (0.5 for 'mle') above the optimum or at the
   first probe beyond the bound, and no probe beyond the bound is fitted. *)
C21_ScanProtocol == []C21_State /\ [][C21_Step]_vars

(* a right scan has made a second probe, with the step taken from 1% of
   |v0| because the standard error is zero, and goes on *)
C21_Witness ==
    /\ pc = "cau_right"
    /\ orig_params[1][ScanName].stderr = 0
    /\ HalfStep > 0
    /\ search_value = V0 + 2 * HalfStep
    /\ probed # <<>> /\ probed[1].at = search_value /\ probed[1].touched

(* C22: a scan whose step is zero (value 0, standard error missing or zero)
   does not go on for ever: the function leaves the scan of that parameter. *)
C22_ZeroStepScanEnds ==
    [](((Scanning /\ HalfStep = 0) => <>(~Scanning)))

(* C23: fit_new_value gives 0 without a refit exactly when the value it is
   called with is the optimal value v0 of the parameter; for any other value
   the model is refitted. *)
C23_NoRefitExactlyAtOptimum ==
    probed # <<>> =>
        LET p == probed[1]
            v0 == orig_params[1][p.name].value
        IN IF p.at = v0 THEN ~p.touched /\ p.delta = 0 ELSE p.touched

(* a scan sets its boundary from the root finder, not from the bound *)
RootStep(side) ==
    /\ pc = (IF side = "right" THEN "cau_right" ELSE "cau_left")
    /\ ~ranges_has(ranges, ScanName, side)
    /\ ranges_has(ranges', ScanName, side)
    /\ hit' = hit

C24_Step ==
    \A side \in {"right", "left"} :
        RootStep(side) =>
            ranges_get(ranges', ScanName, side) \in Between(search_value, probed'[1].at)

(* C24: the boundary the root finder gives for a side lies between the last
   probe at or below the threshold and the first probe above it. *)
C24_RootBetweenLastTwoProbes == [][C24_Step]_vars

(* the uncertainty of a selected parameter: the larger of the distances from
   v0 to its two boundaries *)
Uncertainty(rng, n, v0) ==
    LET r == Abs(ranges_get(rng, n, "right") - v0)
        l == Abs(ranges_get(rng, n, "left") - v0)
    IN IF r >= l THEN r ELSE l

C25_Step ==
    /\ (pc = "idle" /\ pc' \in {"cau_right", "cau_finish"}) => orig_params' = << f_params' >>
    /\ Scanning => orig_params' = orig_params
    /\ (pc = "cau_finish" /\ pc' = "returned") =>
          \A n \in Names :
             /\ f_params'[n].value = orig_params[1][n].value
             /\ f_params'[n].vary = orig_params[1][n].vary
             /\ f_params'[n].stderr =
                   IF \E k \in 1..Len(param_names) : param_names[k] = n
                   THEN Uncertainty(ranges, n, orig_params[1][n].value)
                   ELSE None

(* C25: when calculate_analytical_uncertainty returns, the value and the free
   flag of every parameter are those its initial fit left, the standard error
   of every selected parameter is max(|right - v0|, |left - v0|) and that of
   every other parameter is None. *)
C25_ReturnedParameters == [][C25_Step]_vars

(* the function has returned after a scan of p1 alone, p2 being free too *)
C25_Witness ==
    /\ fn = "analytical" /\ pc = "returned"
    /\ param_names = <<"p1">>
    /\ f_params["p2"].vary /\ f_params["p2"].stderr = None
    /\ f_params["p1"].stderr > 0

(* C30: when calculate_analytical_uncertainty has returned, the objective
   recorded on the model is the objective of its initial fit. *)
C30_ObjectiveOfOptimum ==
    (fn = "analytical" /\ pc = "returned") =>
        (IF mapped[2] = "chisqr" THEN f_chisqr ELSE f_mle_likelihood) = orig_value

-----------------------------------------------------------------------------
(* Properties of assignHessianEstimate *)

(* C27: when assignHessianEstimate(func, f, f.params, ...) has ended, by its
   return or by an exception, the values of f.params are those of the
   ParameterSet it was given (result_params holds them: it is f.params as
   the call found it). *)
C27_HessianKeepsValues ==
    (fn = "hessian" /\ pc \in {"returned", "raised"}) =>
        \A n \in Names : f_params[n].value = result_params[n].value

C26_Step ==
    (pc = "idle" /\ fn' = "hessian" /\ pc' = "returned") =>
        IF VarNames(f_params) = {}
        THEN /\ f_params' = f_params /\ f_correl' = f_correl
             /\ UNCHANGED <<f_chisqr, f_mle_likelihood, f_mle_fit, f_chisq_res_par, f_ndof>>
        ELSE \A n \in Names :
                IF f_params[n].vary
                THEN /\ f_params'[n].stderr # None
                     /\ f_correl'[n] = << { m \in Names : f_params[m].vary /\ m # n } >>
                ELSE /\ f_params'[n].stderr = f_params[n].stderr
                     /\ f_correl'[n] = f_correl[n]

(* C26: a call of assignHessianEstimate that completes gives every free
   parameter a standard error and a correlation map whose keys are the names
   of the other free parameters, leaves the standard error and the
   correlations of every fixed parameter as they were, and changes nothing
   on the model when no parameter is free. *)
C26_StderrAndCorrelations == [][C26_Step]_vars

(* the estimate has completed on two free parameters *)
C26_Witness ==
    /\ fn = "hessian" /\ pc = "returned"
    /\ \A n \in Names : f_params[n].vary /\ f_params[n].stderr # None
    /\ f_correl = [n \in Names |-> << Names \ {n} >>]

-----------------------------------------------------------------------------
(* Properties of the links a SumModel holds *)

(* the expr of p is a link (not None and not the formula of TotalFWHM) *)
IsLink(p) == sum_params[p].expr # <<>> /\ sum_params[p].expr # Formula

(* following at most n links from p leads to q *)
RECURSIVE LinkedTo(_, _, _)
LinkedTo(p, q, n) ==
    /\ n > 0
    /\ IsLink(p)
    /\ sum_params[p].expr \in SumNames
    /\ \/ sum_params[p].expr = q
       \/ LinkedTo(sum_params[p].expr, q, n - 1)

(* C28: whatever lists were assigned to shared, every link names a parameter
   of the set, no parameter is linked to itself and no chain of links comes
   back to the parameter it started from. *)
C28_LinksWellFormed ==
    \A p \in SumNames :
        /\ IsLink(p) => sum_params[p].expr \in SumNames
        /\ ~LinkedTo(p, p, Cardinality(SumNames))

(* names that are substrings of one another have been linked: s1_TotalFWHM
   is linked to s0_TotalFWHM, which is itself linked to s0_FWHMG *)
C28_Witness ==
    /\ sum_params[<<"s1_", "Total", "FWHM">>].expr = <<"s0_", "Total", "FWHM">>
    /\ sum_params[<<"s0_", "Total", "FWHM">>].expr = <<"s0_", "FWHM", "G">>

-----------------------------------------------------------------------------
(* Properties of the store names *)

(* the name a caller gave without its extension *)
Stem(name) == IF Len(name) > 1 THEN SubSeq(name, 1, Len(name) - 1) ELSE name

(* C29: walks called with names of different stems are written to different
   files. *)
C29_DistinctNamesDistinctFiles ==
    \A a, b \in disk : Stem(a[3]) # Stem(b[3]) => a[1] # b[1]

====
